---------------------------- MODULE Spec2Model ----------------------------
(***************************************************************************)
(* Model of the website audit backend: the four dimension analyzers        *)
(* (analyzeSEO, analyzePerformance, analyzeAccessibility,                  *)
(* analyzeBestPractices), the grading function and runFullAudit.           *)
(*                                                                         *)
(* A fetched page is represented by what the analyzers' selectors and      *)
(* header lookups observe of it: element counts, attribute presence, text  *)
(* lengths, the heading levels in document order, the response headers and *)
(* the measured load time.                                                 *)
(***************************************************************************)
EXTENDS Integers, Sequences, FiniteSets, TLC

(***************************************************************************)
(* Bounds of the explored documents.                                       *)
(***************************************************************************)
MaxImages == 8
MaxInputs == 7
MaxHeadings == 3
MaxDeprecated == 16
MaxLinks == 6

(***************************************************************************)
(* JavaScript helpers.                                                     *)
(***************************************************************************)
\* Math.min(a, b)
MathMin(a, b) == IF a < b THEN a ELSE b

\* Math.max(a, b)
MathMax(a, b) == IF a > b THEN a ELSE b

\* Math.round(n / d) for n >= 0, d > 0: the nearest integer, halves go up
MathRound(n, d) == (2 * n + d) \div (2 * d)

\* issues.push(...)
Push(s, e) == Append(s, e)

\* getGrade(score)
getGrade(score) ==
    IF score >= 90 THEN "A"
    ELSE IF score >= 80 THEN "B"
    ELSE IF score >= 70 THEN "C"
    ELSE IF score >= 60 THEN "D"
    ELSE "F"

\* An issue as pushed by the analyzers.  The template literals of the source
\* are kept as the fixed text plus the interpolated numbers.
Issue(type, message, args, impact) ==
    [type |-> type, message |-> message, args |-> args, impact |-> impact]

\* One check of an analyzer: whether it fired, the issue it pushes and the
\* amount it takes from the running score.
Check(fired, issue, deduction) ==
    [fired |-> fired, issue |-> issue, deduction |-> deduction]

NoIssue == Issue("", "", <<>>, "")
Skip == Check(FALSE, NoIssue, 0)

\* The statements of an analyzer body executed in order on the mutable
\* pair (score, issues): "issues.push(issue); score -= deduction" for each
\* check that fired.
RECURSIVE RunChecks(_, _, _)
RunChecks(checks, i, acc) ==
    IF i > Len(checks) THEN acc
    ELSE RunChecks(checks, i + 1,
            IF checks[i].fired
            THEN [score  |-> acc.score - checks[i].deduction,
                  issues |-> Push(acc.issues, checks[i].issue)]
            ELSE acc)

\* let score = 100; const issues = [];
Start == [score |-> 100, issues |-> <<>>]

\* score: Math.max(score, 0)
ClampNone(score) == score
Clamp(score) == MathMax(score, 0)

\* $('h1').length
RECURSIVE CountLevel(_, _)
CountLevel(headings, level) ==
    IF headings = <<>> THEN 0
    ELSE (IF Head(headings) = level THEN 1 ELSE 0) + CountLevel(Tail(headings), level)


(***************************************************************************)
(* Response headers.  A header that is absent reads as "" (falsy).         *)
(***************************************************************************)
SecurityHeaderNames ==
    <<"x-content-type-options", "x-frame-options",
      "x-xss-protection", "strict-transport-security">>

HeaderNames ==
    {SecurityHeaderNames[i] : i \in 1..4}
        \cup {"content-encoding", "cache-control", "expires", "server"}

\* securityHeaders[header]
SecurityHeaderMessage(header) ==
    CASE header = "x-content-type-options" -> "Missing X-Content-Type-Options header"
      [] header = "x-frame-options" -> "Missing X-Frame-Options header"
      [] header = "x-xss-protection" -> "Missing X-XSS-Protection header"
      [] header = "strict-transport-security" -> "Missing Strict-Transport-Security header"

ServerValues == {"", "nginx", "cloudflare", "AmazonCloudFront"}

\* server.toLowerCase(), on the server values explored
toLowerCase(s) == IF s = "AmazonCloudFront" THEN "amazoncloudfront" ELSE s

\* server.includes(cdn), on the server values explored
includes(s, sub) ==
    <<s, sub>> \in {<<"cloudflare", "cloudflare">>, <<"amazoncloudfront", "cloudfront">>}

cdnHeaders == {"cloudflare", "cloudfront", "fastly", "maxcdn"}

\* score -= Math.min(imagesWithoutAlt * 2, 15) of analyzeSEO
SeoImagesDeductionTriple(imagesWithoutAlt) == MathMin(imagesWithoutAlt * 3, 15)
SeoImagesDeduction(imagesWithoutAlt) == MathMin(imagesWithoutAlt * 2, 15)

(***************************************************************************)
(* analyzeSEO: the body after the fetch has returned.                      *)
(***************************************************************************)
analyzeSEO(response) ==
    LET d == response.data
        title == d.titleLength
        metaDescription == d.metaDescriptionLength
        h1Tags == CountLevel(d.headings, 1)
        imagesWithoutAlt == d.imagesWithoutAlt
        canonical == d.canonical
        ogTitle == d.ogTitle
        ogDescription == d.ogDescription
        checks == <<
            IF title = 0
            THEN Check(TRUE, Issue("error", "Missing title tag", <<>>, "high"), 15)
            ELSE IF title < 30 \/ title > 60
            THEN Check(TRUE, Issue("warning", "Title length should be 30-60 characters",
                                   <<title>>, "medium"), 10)
            ELSE Skip,
            IF metaDescription = 0
            THEN Check(TRUE, Issue("error", "Missing meta description", <<>>, "high"), 15)
            ELSE IF metaDescription < 120 \/ metaDescription > 160
            THEN Check(TRUE, Issue("warning", "Meta description should be 120-160 characters",
                                   <<metaDescription>>, "medium"), 8)
            ELSE Skip,
            IF h1Tags = 0
            THEN Check(TRUE, Issue("error", "Missing H1 tag", <<>>, "high"), 12)
            ELSE IF h1Tags > 1
            THEN Check(TRUE, Issue("warning", "Multiple H1 tags found", <<>>, "medium"), 8)
            ELSE Skip,
            Check(imagesWithoutAlt > 0,
                  Issue("warning", "images missing alt text", <<imagesWithoutAlt>>, "medium"),
                  SeoImagesDeduction(imagesWithoutAlt)),
            Check(~canonical, Issue("warning", "Missing canonical URL", <<>>, "low"), 5),
            Check(~ogTitle \/ ~ogDescription,
                  Issue("info", "Missing Open Graph tags for social sharing", <<>>, "low"), 3)
          >>
        run == RunChecks(checks, 1, Start)
        score == run.score
        issues == run.issues
        recommendations ==
            IF Len(issues) > 0
            THEN <<"Fix critical SEO issues first (missing title, meta description, H1)",
                   "Optimize title and meta description lengths",
                   "Add alt text to all images">>
            ELSE <<>>
    IN  [score |-> Clamp(score),
         grade |-> getGrade(score),
         issues |-> issues,
         recommendations |-> recommendations,
         details |-> [titleLength |-> title,
                      metaDescriptionLength |-> metaDescription,
                      h1Count |-> h1Tags,
                      imagesWithoutAlt |-> imagesWithoutAlt,
                      hasCanonical |-> canonical,
                      hasOpenGraph |-> (ogTitle /\ ogDescription)]]

(***************************************************************************)
(* analyzePerformance: the body after the fetch has returned.              *)
(* response.loadTime is Date.now() - startTime measured around the fetch.  *)
(***************************************************************************)
analyzePerformance(response) ==
    LET loadTime == response.loadTime
        contentSize == response.data.byteLength
        headers == response.headers
        sizeInKB == MathRound(contentSize, 1024)
        server == headers["server"]
        hasCDN == \E cdn \in cdnHeaders : includes(toLowerCase(server), cdn)
        checks == <<
            IF loadTime > 3000
            THEN Check(TRUE, Issue("error", "Slow page load time", <<loadTime>>, "high"), 20)
            ELSE IF loadTime > 1500
            THEN Check(TRUE, Issue("warning", "Moderate page load time", <<loadTime>>, "medium"), 10)
            ELSE Skip,
            Check(sizeInKB > 1000,
                  Issue("warning", "Large page size", <<sizeInKB>>, "medium"), 15),
            Check(headers["content-encoding"] = "",
                  Issue("warning", "No compression detected", <<>>, "medium"), 10),
            Check(headers["cache-control"] = "" /\ headers["expires"] = "",
                  Issue("warning", "No caching headers found", <<>>, "medium"), 8),
            Check(~hasCDN,
                  Issue("info", "Consider using a CDN for better performance", <<>>, "low"), 5)
          >>
        run == RunChecks(checks, 1, Start)
        score == run.score
        issues == run.issues
        recommendations ==
            (IF loadTime > 1500
             THEN <<"Optimize images and reduce file sizes",
                    "Enable compression (gzip/brotli)",
                    "Minimize HTTP requests">>
             ELSE <<>>)
            \o (IF sizeInKB > 500
                THEN <<"Reduce page size by optimizing assets">>
                ELSE <<>>)
        coreWebVitals ==
            [lcp |-> IF loadTime < 2500 THEN "good"
                     ELSE IF loadTime < 4000 THEN "needs-improvement" ELSE "poor",
             fid |-> "good",
             cls |-> "good"]
    IN  [score |-> Clamp(score),
         grade |-> getGrade(score),
         issues |-> issues,
         recommendations |-> recommendations,
         metrics |-> [loadTime |-> loadTime,
                      pageSize |-> sizeInKB,
                      hasCompression |-> headers["content-encoding"] # "",
                      hasCaching |-> (headers["cache-control"] # "" \/ headers["expires"] # ""),
                      hasCDN |-> hasCDN,
                      responseTime |-> loadTime],
         coreWebVitals |-> coreWebVitals]

(***************************************************************************)
(* Elements of one kind are kept as groups [attrs, count]: count elements  *)
(* carrying the same attributes.                                           *)
(***************************************************************************)
\* $(selector).length over the groups
RECURSIVE CountAll(_)
CountAll(groups) ==
    IF groups = <<>> THEN 0 ELSE Head(groups).count + CountAll(Tail(groups))

\* The filter of the form-label check: input:not([type="hidden"])
\* :not([aria-label]):not([aria-labelledby]), then !id || no label[for=id]
IsUnlabeled(g) ==
    /\ ~g.attrs.hidden /\ ~g.attrs.ariaLabel /\ ~g.attrs.ariaLabelledby
    /\ (~g.attrs.id \/ ~g.attrs.labelFor)

\* !rel.includes('noopener') || !rel.includes('noreferrer')
IsUnsafeBothMissing(g) == ("noopener" \notin g.attrs.rel) /\ ("noreferrer" \notin g.attrs.rel)
IsUnsafe(g) == ("noopener" \notin g.attrs.rel) \/ ("noreferrer" \notin g.attrs.rel)

\* The same walk with the previousLevel !== 0 test left out
RECURSIVE HeadingWalkFirstCounts(_, _, _)
HeadingWalkFirstCounts(headings, previousLevel, headingIssues) ==
    IF headings = <<>> THEN headingIssues
    ELSE LET level == Head(headings)
         IN  HeadingWalkFirstCounts(Tail(headings), level,
                 IF level > previousLevel + 1
                 THEN headingIssues + 1
                 ELSE headingIssues)

\* headings.each(...): the walk over h1..h6 in document order, counting the
\* headings whose level exceeds the previous one by more than 1
RECURSIVE HeadingWalk(_, _, _)
HeadingWalk(headings, previousLevel, headingIssues) ==
    IF headings = <<>> THEN headingIssues
    ELSE LET level == Head(headings)
         IN  HeadingWalk(Tail(headings), level,
                 IF level > previousLevel + 1 /\ previousLevel # 0
                 THEN headingIssues + 1
                 ELSE headingIssues)

\* score -= Math.min(imagesWithoutAlt * 3, 20)
ImagesDeductionUncapped(imagesWithoutAlt) == imagesWithoutAlt * 3
ImagesDeduction(imagesWithoutAlt) == MathMin(imagesWithoutAlt * 3, 20)

\* if (headingIssues > 1)
HierarchyBrokenAny(headingIssues) == headingIssues > 0
HierarchyBroken(headingIssues) == headingIssues > 1

\* focusableElements > 0 && elementsWithTabindex === 0
KeyboardCheck(focusableElements, elementsWithTabindex) ==
    focusableElements > 0 /\ elementsWithTabindex = 0

(***************************************************************************)
(* analyzeAccessibility: the body after the fetch has returned.            *)
(***************************************************************************)
analyzeAccessibility(response) ==
    LET d == response.data
        imagesWithoutAlt == d.imagesWithoutAlt
        totalImages == d.imagesWithoutAlt + d.imagesWithAlt
        headings == d.headings
        h1Missing == CountLevel(headings, 1) = 0
        headingIssues == HeadingWalk(headings, 0, IF h1Missing THEN 1 ELSE 0)
        inputsWithoutLabels == CountAll(SelectSeq(d.inputs, IsUnlabeled))
        elementsWithInlineColors == d.styledColor
        \* a, button, input, select, textarea, [tabindex]
        focusableElements ==
            d.skipLinks + d.otherFocusable + CountAll(d.externalLinks)
                + CountAll(d.inputs) + d.tabindex
        elementsWithTabindex == d.tabindex
        landmarks == d.landmarks
        htmlLang == d.htmlLang
        skipLinks == d.skipLinks
        checks == <<
            Check(imagesWithoutAlt > 0,
                  Issue("error", "images missing alt text",
                        <<imagesWithoutAlt, totalImages>>, "high"),
                  ImagesDeduction(imagesWithoutAlt)),
            Check(h1Missing, Issue("error", "Missing H1 heading", <<>>, "high"), 15),
            Check(HierarchyBroken(headingIssues),
                  Issue("warning", "Improper heading hierarchy", <<>>, "medium"), 10),
            Check(inputsWithoutLabels > 0,
                  Issue("error", "form inputs missing labels", <<inputsWithoutLabels>>, "high"),
                  inputsWithoutLabels * 5),
            Check(elementsWithInlineColors > 0,
                  Issue("warning", "Elements with inline colors detected - check contrast ratios",
                        <<>>, "medium"), 5),
            Check(KeyboardCheck(focusableElements, elementsWithTabindex),
                  Issue("info", "Consider adding proper tab navigation order", <<>>, "low"), 3),
            Check(landmarks = 0,
                  Issue("warning", "No ARIA landmarks or semantic HTML5 elements found",
                        <<>>, "medium"), 8),
            Check(htmlLang = "",
                  Issue("warning", "Missing language attribute on HTML element", <<>>, "medium"), 7),
            Check(skipLinks = 0,
                  Issue("info", "No skip navigation links found", <<>>, "low"), 3)
          >>
        run == RunChecks(checks, 1, Start)
        score == run.score
        issues == run.issues
        recommendations ==
            (IF imagesWithoutAlt > 0
             THEN <<"Add descriptive alt text to all images">> ELSE <<>>)
            \o (IF inputsWithoutLabels > 0
                THEN <<"Associate all form inputs with proper labels">> ELSE <<>>)
            \o (IF headingIssues > 0
                THEN <<"Fix heading hierarchy (H1 -> H2 -> H3, etc.)">> ELSE <<>>)
            \o <<"Test with screen readers and keyboard navigation",
                 "Ensure sufficient color contrast (4.5:1 for normal text)">>
    IN  [score |-> Clamp(score),
         grade |-> getGrade(score),
         issues |-> issues,
         recommendations |-> recommendations,
         details |-> [totalImages |-> totalImages,
                      imagesWithoutAlt |-> imagesWithoutAlt,
                      headingCount |-> Len(headings),
                      inputsWithoutLabels |-> inputsWithoutLabels,
                      hasLanguageAttribute |-> htmlLang # "",
                      landmarkCount |-> landmarks,
                      skipLinksCount |-> skipLinks]]

(***************************************************************************)
(* analyzeBestPractices: the body after the fetch has returned.            *)
(***************************************************************************)
\* viewportMeta.includes('width=device-width'), on the viewport values explored
includesDeviceWidth(viewportMeta) == viewportMeta = "width=device-width, initial-scale=1"

\* url.startsWith('https://')
startsWithHttps(url) == url.scheme = "https"

\* One "if (!headers[header]) { issues.push(...); score -= 5 }" of the forEach
SecurityHeaderCheck(headers, header) ==
    Check(headers[header] = "",
          Issue("warning", SecurityHeaderMessage(header), <<>>, "medium"), 5)

analyzeBestPractices(url, response) ==
    LET d == response.data
        headers == response.headers
        isHTTPS == startsWithHttps(url)
        viewportMeta == d.viewport
        favicon == d.iconLinks > 0
        externalLinks == d.externalLinks
        unsafeExternalLinks == CountAll(SelectSeq(externalLinks, IsUnsafe))
        httpResources == d.httpResources
        deprecatedElements == d.deprecatedElements
        inlineStyles == d.styledColor + d.styledOther
        inlineScripts == d.inlineScripts
        checks == <<
            Check(~isHTTPS, Issue("error", "Website not using HTTPS", <<>>, "high"), 20),
            SecurityHeaderCheck(headers, SecurityHeaderNames[1]),
            SecurityHeaderCheck(headers, SecurityHeaderNames[2]),
            SecurityHeaderCheck(headers, SecurityHeaderNames[3]),
            SecurityHeaderCheck(headers, SecurityHeaderNames[4]),
            IF viewportMeta = ""
            THEN Check(TRUE, Issue("error", "Missing viewport meta tag", <<>>, "high"), 15)
            ELSE IF ~includesDeviceWidth(viewportMeta)
            THEN Check(TRUE, Issue("warning",
                                   "Viewport meta tag should include width=device-width",
                                   <<>>, "medium"), 8)
            ELSE Skip,
            Check(~favicon, Issue("info", "No favicon found", <<>>, "low"), 3),
            Check(unsafeExternalLinks > 0,
                  Issue("warning", "external links missing rel=noopener noreferrer",
                        <<unsafeExternalLinks>>, "medium"),
                  MathMin(unsafeExternalLinks * 2, 10)),
            Check(isHTTPS /\ httpResources > 0,
                  Issue("error", "HTTP resources on HTTPS page (mixed content)",
                        <<httpResources>>, "high"), 15),
            Check(deprecatedElements > 0,
                  Issue("warning", "deprecated HTML elements found",
                        <<deprecatedElements>>, "low"),
                  deprecatedElements * 2),
            Check(inlineStyles > 5,
                  Issue("info", "Many inline styles found - consider using external CSS",
                        <<inlineStyles>>, "low"), 3),
            Check(inlineScripts > 2,
                  Issue("info", "Multiple inline scripts found - consider using external JS",
                        <<inlineScripts>>, "low"), 3)
          >>
        run == RunChecks(checks, 1, Start)
        score == run.score
        issues == run.issues
        recommendations ==
            (IF ~isHTTPS
             THEN <<"Implement HTTPS with valid SSL certificate">> ELSE <<>>)
            \o (IF \E i \in 1..4 : headers[SecurityHeaderNames[i]] = ""
                THEN <<"Add security headers for better protection">> ELSE <<>>)
            \o (IF viewportMeta = ""
                THEN <<"Add viewport meta tag for mobile responsiveness">> ELSE <<>>)
            \o (IF unsafeExternalLinks > 0
                THEN <<"Add rel=noopener noreferrer to external links">> ELSE <<>>)
    IN  [score |-> Clamp(score),
         grade |-> getGrade(score),
         issues |-> issues,
         recommendations |-> recommendations,
         details |-> [isHTTPS |-> isHTTPS,
                      hasViewport |-> viewportMeta # "",
                      hasFavicon |-> favicon,
                      securityHeaders |->
                          [contentTypeOptions |-> headers["x-content-type-options"] # "",
                           frameOptions |-> headers["x-frame-options"] # "",
                           xssProtection |-> headers["x-xss-protection"] # "",
                           hsts |-> headers["strict-transport-security"] # ""],
                      externalLinksCount |-> CountAll(externalLinks),
                      unsafeExternalLinks |-> unsafeExternalLinks,
                      deprecatedElements |-> deprecatedElements,
                      inlineStyles |-> inlineStyles,
                      inlineScripts |-> inlineScripts]]

(***************************************************************************)
(* The pages explored.                                                     *)
(***************************************************************************)
Analyzers == {"seo", "performance", "accessibility", "bestPractices"}

\* The order of the four calls in the array literal of runFullAudit
Order == <<"seo", "performance", "accessibility", "bestPractices">>

InputAttrs(hidden, ariaLabel, ariaLabelledby, id, labelFor) ==
    [hidden |-> hidden, ariaLabel |-> ariaLabel, ariaLabelledby |-> ariaLabelledby,
     id |-> id, labelFor |-> labelFor]

Group(attrs, count) == [attrs |-> attrs, count |-> count]

LabelledInput == InputAttrs(FALSE, FALSE, FALSE, TRUE, TRUE)
AriaInput == InputAttrs(FALSE, TRUE, FALSE, FALSE, FALSE)
AriaRefInput == InputAttrs(FALSE, FALSE, TRUE, FALSE, FALSE)
HiddenInput == InputAttrs(TRUE, FALSE, FALSE, FALSE, FALSE)
NoIdInput == InputAttrs(FALSE, FALSE, FALSE, FALSE, FALSE)
OrphanIdInput == InputAttrs(FALSE, FALSE, FALSE, TRUE, FALSE)

InputSamples ==
    { <<>>,
      <<Group(LabelledInput, 1)>>,
      <<Group(AriaInput, 1), Group(AriaRefInput, 1), Group(HiddenInput, 1)>>,
      <<Group(NoIdInput, 1), Group(LabelledInput, 1)>>,
      <<Group(OrphanIdInput, MaxInputs)>> }

Link(rel) == [rel |-> rel]

LinkSamples ==
    { <<>>,
      <<Group(Link({"noopener"}), 1), Group(Link({"noopener", "noreferrer"}), 1)>>,
      <<Group(Link({}), MaxLinks), Group(Link({"noreferrer"}), 1)>> }

ImageCounts == {0, 3, MaxImages}

HeadingLevels == {1, 2, 3, 5}

AllHeadings ==
    UNION {[1..n -> HeadingLevels] : n \in 0..MaxHeadings}

HeadingSamples ==
    { <<>>, <<1>>, <<1, 2>>, <<1, 3>>, <<1, 3, 5>>, <<2, 5>> }

GoodDoc ==
    [titleLength |-> 45, metaDescriptionLength |-> 140,
     canonical |-> TRUE, ogTitle |-> TRUE, ogDescription |-> TRUE,
     headings |-> <<1, 2>>,
     imagesWithoutAlt |-> 0, imagesWithAlt |-> 1,
     inputs |-> <<Group(LabelledInput, 1)>>,
     styledColor |-> 0, styledOther |-> 0,
     tabindex |-> 1, otherFocusable |-> 1,
     landmarks |-> 1, htmlLang |-> "en", skipLinks |-> 1,
     viewport |-> "width=device-width, initial-scale=1", iconLinks |-> 1,
     externalLinks |-> <<>>,
     httpResources |-> 0, deprecatedElements |-> 0, inlineScripts |-> 0,
     byteLength |-> 20480]

GoodHeaders == [h \in HeaderNames |-> IF h = "server" THEN "cloudflare" ELSE "1"]

NoHeaders == [h \in HeaderNames |-> ""]

Response(data, headers, loadTime) ==
    [data |-> data, headers |-> headers, loadTime |-> loadTime]

SeoResponses ==
    { Response([GoodDoc EXCEPT !.titleLength = t, !.metaDescriptionLength = m,
                               !.headings = h, !.imagesWithoutAlt = i,
                               !.canonical = c, !.ogTitle = ot, !.ogDescription = od],
               GoodHeaders, 1000) :
        t \in {0, 29, 30, 60, 61}, m \in {0, 119, 120, 160, 161},
        h \in {<<>>, <<1>>, <<1, 1>>}, i \in ImageCounts,
        c \in BOOLEAN, ot \in BOOLEAN, od \in BOOLEAN }

PerformanceResponses ==
    { Response([GoodDoc EXCEPT !.byteLength = b],
               [GoodHeaders EXCEPT !["content-encoding"] = ce, !["cache-control"] = cc,
                                   !["expires"] = ex, !["server"] = sv],
               lt) :
        b \in {20480, 512512, 1024511, 1024512},
        ce \in {"", "gzip"}, cc \in {"", "max-age=60"}, ex \in {"", "0"},
        sv \in ServerValues, lt \in {1500, 1501, 3000, 3001} }

AccessibilityResponses ==
    { Response([GoodDoc EXCEPT !.imagesWithoutAlt = img[1], !.imagesWithAlt = img[2],
                               !.headings = h, !.inputs = inp,
                               !.styledColor = sc, !.tabindex = ti,
                               !.otherFocusable = ofc, !.landmarks = lm,
                               !.htmlLang = lang, !.skipLinks = sk],
               GoodHeaders, 1000) :
        img \in {<<0, 0>>, <<0, 1>>, <<1, 1>>, <<MaxImages, 0>>}, h \in HeadingSamples,
        inp \in InputSamples, sc \in {0, 1}, ti \in {0, 1}, ofc \in {0, 1},
        lm \in {0, 1}, lang \in {"", "en"}, sk \in {0, 1} }
    \cup
    { Response([GoodDoc EXCEPT !.headings = h, !.tabindex = ti, !.styledColor = sc],
               GoodHeaders, 1000) :
        h \in AllHeadings, ti \in {0, 1}, sc \in {0, 1} }

BestPracticesResponses ==
    { Response([GoodDoc EXCEPT !.viewport = vp, !.iconLinks = ic,
                               !.externalLinks = el, !.httpResources = hr,
                               !.deprecatedElements = de, !.styledOther = st,
                               !.inlineScripts = js],
               [h \in HeaderNames |-> IF h \in present THEN "1" ELSE ""],
               1000) :
        vp \in {"", "width=1024", "width=device-width, initial-scale=1"},
        ic \in {0, 1}, el \in LinkSamples, hr \in {0, 2},
        de \in {0, MaxDeprecated}, st \in {5, 6}, js \in {2, 3},
        present \in SUBSET {SecurityHeaderNames[k] : k \in 1..4} }

\* Pages served to the analyzers of a full audit
TypicalDoc ==
    [GoodDoc EXCEPT !.titleLength = 12, !.ogDescription = FALSE,
                    !.imagesWithoutAlt = 3, !.tabindex = 0,
                    !.externalLinks = <<Group(Link({}), 1)>>, !.byteLength = 1024512]

PoorDoc ==
    [GoodDoc EXCEPT !.titleLength = 0, !.metaDescriptionLength = 0, !.canonical = FALSE,
                    !.headings = <<2, 5>>, !.imagesWithoutAlt = MaxImages,
                    !.inputs = <<Group(NoIdInput, 2)>>, !.styledColor = 1,
                    !.tabindex = 0, !.landmarks = 0, !.htmlLang = "", !.skipLinks = 0,
                    !.viewport = "", !.iconLinks = 0, !.deprecatedElements = 3]

BrokenDoc ==
    [PoorDoc EXCEPT !.inputs = <<Group(OrphanIdInput, MaxInputs)>>,
                    !.externalLinks = <<Group(Link({}), MaxLinks)>>,
                    !.deprecatedElements = MaxDeprecated,
                    !.styledOther = 6, !.inlineScripts = 3]

AuditResponses ==
    { Response(GoodDoc, GoodHeaders, 1000),
      Response(TypicalDoc, [GoodHeaders EXCEPT !["expires"] = "", !["server"] = "nginx"], 1501),
      Response(PoorDoc, [NoHeaders EXCEPT !["x-frame-options"] = "1"], 3001),
      Response(BrokenDoc, NoHeaders, 3001) }

Urls == {[scheme |-> "http"], [scheme |-> "https"]}

(***************************************************************************)
(* State.                                                                  *)
(*   entry     what was called: "audit" for runFullAudit(url), or the name *)
(*             of one analyzer called on its own                           *)
(*   url       the URL passed to the call                                  *)
(*   pc        "launch": the synchronous part of the call is running;      *)
(*             "await": the call is suspended at its await;                *)
(*             "done": the call has returned or thrown                     *)
(*   task      per analyzer, the promise returned by the async function    *)
(*   responses per analyzer, what its axios.get returned                   *)
(*   fetches   per analyzer, the number of axios.get calls issued          *)
(*   ret       the outcome of the call                                     *)
(*   req       the HTTP request whose route handler made the call, with    *)
(*             the response sent for it; NoRequest for a direct call       *)
(*   other     a second runFullAudit call running concurrently in the same *)
(*             process, with its own url, pc, task, responses, fetches and *)
(*             ret; IdleCall when there is none                            *)
(***************************************************************************)
VARIABLES entry, url, pc, task, responses, fetches, ret, req, other

vars == <<entry, url, pc, task, responses, fetches, ret, req, other>>

NoValue == [none |-> TRUE]

Promise(state, value) == [state |-> state, value |-> value]

Unstarted == Promise("unstarted", NoValue)
Pending == Promise("pending", NoValue)

Settled(p) == p.state \in {"fulfilled", "rejected"}

\* axios.get(url, { timeout: ... })
timeoutDisabled(a) == 0
timeout(a) == IF a = "performance" THEN 15000 ELSE 10000

\* error.message of the axios failures explored
ErrorMessage(text, ms) == [text |-> text, ms |-> ms]

NetworkErrors == { ErrorMessage("Network Error", 0) }

TimeoutError(a) == ErrorMessage("timeout exceeded", timeout(a))

FailurePrefix(a) ==
    CASE a = "seo" -> "SEO analysis failed: "
      [] a = "performance" -> "Performance analysis failed: "
      [] a = "accessibility" -> "Accessibility analysis failed: "
      [] a = "bestPractices" -> "Best practices analysis failed: "

\* catch (error) { throw new Error(`... analysis failed: ${error.message}`) }
AnalyzerError(a, message) == [message |-> [prefix |-> FailurePrefix(a), cause |-> message]]

\* The body of analyzer a after its fetch has returned
Analyze(a, u, response) ==
    CASE a = "seo" -> analyzeSEO(response)
      [] a = "performance" -> analyzePerformance(response)
      [] a = "accessibility" -> analyzeAccessibility(response)
      [] a = "bestPractices" -> analyzeBestPractices(u, response)

\* The page each of the two sites of concurrent audits serves
SitePage(u) ==
    IF u.host = "first.example"
    THEN Response(TypicalDoc, [GoodHeaders EXCEPT !["expires"] = "", !["server"] = "nginx"], 1501)
    ELSE Response(PoorDoc, [NoHeaders EXCEPT !["x-frame-options"] = "1"], 3001)

ResponsesFor(e, a) ==
    IF other.pc # "idle" THEN {SitePage(url)}
    ELSE IF e = "audit" THEN AuditResponses
    ELSE CASE a = "seo" -> SeoResponses
           [] a = "performance" -> PerformanceResponses
           [] a = "accessibility" -> AccessibilityResponses
           [] a = "bestPractices" -> BestPracticesResponses

\* await axios.get(...): one request per call of the analyzer
IssueFetchTwice(n) == n + 2
IssueFetch(n) == n + 1

(***************************************************************************)
(* runFullAudit.                                                           *)
(***************************************************************************)
\* err => ({ error: err.message, score: 0 })
CatchHandlerWithIssues(err) == [error |-> err.message, score |-> 0, issues |-> <<>>]
CatchHandler(err) == [error |-> err.message, score |-> 0]

\* analyzeX(url).catch(handler)
WithoutCatch(p) == p
WithCatch(p) ==
    IF p.state = "rejected" THEN Promise("fulfilled", CatchHandler(p.value)) ELSE p

\* Promise.all([...]): rejected as soon as one element is rejected, fulfilled
\* with the array of values once every element is fulfilled
PromiseAny(elements) ==
    IF \E i \in 1..Len(elements) : Settled(elements[i])
    THEN Promise("fulfilled", [i \in 1..Len(elements) |-> elements[i].value])
    ELSE Pending
PromiseAll(elements) ==
    IF \E i \in 1..Len(elements) : elements[i].state = "rejected"
    THEN Promise("rejected",
                 elements[CHOOSE i \in 1..Len(elements) : elements[i].state = "rejected"].value)
    ELSE IF \A i \in 1..Len(elements) : elements[i].state = "fulfilled"
    THEN Promise("fulfilled", [i \in 1..Len(elements) |-> elements[i].value])
    ELSE Pending

\* results.score || 0
ScoreOrZero(results) == IF "score" \in DOMAIN results THEN results.score ELSE 0

\* results.issues?.length || 0
IssuesLengthOrOne(results) == IF "issues" \in DOMAIN results THEN Len(results.issues) ELSE 1
IssuesLength(results) == IF "issues" \in DOMAIN results THEN Len(results.issues) ELSE 0

\* Math.floor in place of Math.round
MathFloor(n, d) == n \div d

\* Math.round(scores.reduce((a, b) => a + b, 0) / scores.length)
OverallScoreFloor(scores) ==
    MathFloor(scores[1] + scores[2] + scores[3] + scores[4], Len(scores))
OverallScore(scores) ==
    MathRound(scores[1] + scores[2] + scores[3] + scores[4], Len(scores))

\* The statements of runFullAudit after the await
AuditResults(seoResults, performanceResults, accessibilityResults, bestPracticesResults) ==
    LET scores == <<ScoreOrZero(seoResults), ScoreOrZero(performanceResults),
                    ScoreOrZero(accessibilityResults), ScoreOrZero(bestPracticesResults)>>
        overallScore == OverallScore(scores)
    IN  [overall |-> [score |-> overallScore, grade |-> getGrade(overallScore)],
         seo |-> seoResults,
         performance |-> performanceResults,
         accessibility |-> accessibilityResults,
         bestPractices |-> bestPracticesResults,
         summary |-> [totalIssues |-> IssuesLength(seoResults)
                                        + IssuesLength(performanceResults)
                                        + IssuesLength(accessibilityResults)
                                        + IssuesLength(bestPracticesResults),
                      criticalIssues |-> 0,
                      recommendations |-> <<>>]]

NoReturn == [kind |-> "none"]
Returned(value) == [kind |-> "returned", value |-> value]
Threw(err) == [kind |-> "threw", value |-> err]

NoResponse == [status |-> 0]

NoRequest == [route |-> "none", res |-> NoResponse]

IdleCall ==
    [url |-> [scheme |-> "", host |-> ""],
     pc |-> "idle",
     task |-> [a \in Analyzers |-> Unstarted],
     responses |-> [a \in Analyzers |-> NoValue],
     fetches |-> [a \in Analyzers |-> 0],
     ret |-> NoReturn]

Init ==
    /\ entry \in {"audit"} \cup Analyzers
    /\ url \in Urls
    /\ pc = "launch"
    /\ task = [a \in Analyzers |-> Unstarted]
    /\ responses = [a \in Analyzers |-> NoValue]
    /\ fetches = [a \in Analyzers |-> 0]
    /\ ret = NoReturn
    /\ req = NoRequest
    /\ other = IdleCall

\* The analyzers called so far, in the order of the array literal
Position(a) == CHOOSE i \in 1..4 : Order[i] = a

\* analyzeX(url) runs up to its "await axios.get(...)" and returns its promise
Launch(a) ==
    /\ pc = "launch"
    /\ task[a].state = "unstarted"
    /\ IF entry = "audit"
       THEN \A i \in 1..(Position(a) - 1) : task[Order[i]].state # "unstarted"
       ELSE a = entry
    /\ task' = [task EXCEPT ![a] = Pending]
    /\ fetches' = [fetches EXCEPT ![a] = IssueFetch(@)]
    /\ pc' = IF entry = "audit" /\ Position(a) < 4 THEN "launch" ELSE "await"
    /\ UNCHANGED <<entry, url, responses, ret, req, other>>

\* The outcome of a call of one analyzer on its own is its promise
SingleOutcomeCaught(p) == Returned(WithCatch(p).value)
SingleOutcome(p) ==
    IF p.state = "fulfilled" THEN Returned(p.value) ELSE Threw(p.value)

Settle(a, p) ==
    /\ task' = [task EXCEPT ![a] = p]
    /\ IF entry = "audit"
       THEN UNCHANGED <<pc, ret>>
       ELSE pc' = "done" /\ ret' = SingleOutcome(p)
    /\ UNCHANGED <<entry, url, fetches, req, other>>

\* The fetch returns; the rest of the analyzer body runs and returns its results
FetchReturns(a) ==
    /\ pc = "await"
    /\ task[a].state = "pending"
    /\ \E response \in ResponsesFor(entry, a) :
        /\ responses' = [responses EXCEPT ![a] = response]
        /\ Settle(a, Promise("fulfilled", Analyze(a, url, response)))

\* The fetch fails, or the body throws on what it returned; the catch block
\* of the analyzer rethrows
FetchFails(a) ==
    /\ pc = "await"
    /\ task[a].state = "pending"
    /\ \E message \in NetworkErrors :
        Settle(a, Promise("rejected", AnalyzerError(a, message)))
    /\ UNCHANGED responses

\* The timeout given to axios.get expires first
FetchTimesOut(a) ==
    /\ pc = "await"
    /\ task[a].state = "pending"
    /\ timeout(a) > 0
    /\ Settle(a, Promise("rejected", AnalyzerError(a, TimeoutError(a))))
    /\ UNCHANGED responses

\* The four elements handed to Promise.all
Elements == [i \in 1..4 |-> WithCatch(task[Order[i]])]

\* "await Promise.all([...])" resumes
Join ==
    /\ entry = "audit"
    /\ pc = "await"
    /\ LET all == PromiseAll(Elements)
       IN  /\ all.state # "pending"
           /\ ret' = IF all.state = "fulfilled"
                     THEN Returned(AuditResults(all.value[1], all.value[2],
                                                all.value[3], all.value[4]))
                     ELSE Threw([message |-> [prefix |-> "Audit failed: ",
                                              cause |-> all.value.message]])
    /\ pc' = "done"
    /\ UNCHANGED <<entry, url, task, responses, fetches, req, other>>

Next ==
    \/ \E a \in Analyzers : Launch(a)
    \/ \E a \in Analyzers : FetchReturns(a)
    \/ \E a \in Analyzers : FetchFails(a)
    \/ \E a \in Analyzers : FetchTimesOut(a)
    \/ Join

Spec == Init /\ [][Next]_vars

\* Synchronous code runs on, the timer of a pending fetch fires unless the
\* fetch settles first, and a ready continuation is run.  Nothing is assumed
\* of the remote site: it need never answer.
FairSpec ==
    /\ Spec
    /\ WF_vars(\E a \in Analyzers : Launch(a))
    /\ WF_vars(\E a \in Analyzers : FetchTimesOut(a))
    /\ WF_vars(Join)

(***************************************************************************)
(* Two runFullAudit calls for unrelated URLs running concurrently in one   *)
(* process.  The first is the call of the variables url .. ret, the second *)
(* the record other; each call has its own locals and its own analyzer     *)
(* calls, and the steps of the two interleave at their awaits.             *)
(***************************************************************************)
FirstUrl == [scheme |-> "http", host |-> "first.example"]

SecondUrl == [scheme |-> "https", host |-> "second.example"]

ConcurrentInit ==
    /\ entry = "audit"
    /\ url = FirstUrl
    /\ pc = "launch"
    /\ task = [a \in Analyzers |-> Unstarted]
    /\ responses = [a \in Analyzers |-> NoValue]
    /\ fetches = [a \in Analyzers |-> 0]
    /\ ret = NoReturn
    /\ req = NoRequest
    /\ other = [IdleCall EXCEPT !.url = SecondUrl, !.pc = "launch"]

\* analyzeX(url) of the second call runs up to its "await axios.get(...)"
OtherLaunch(a) ==
    /\ other.pc = "launch"
    /\ other.task[a].state = "unstarted"
    /\ \A i \in 1..(Position(a) - 1) : other.task[Order[i]].state # "unstarted"
    /\ other' = [other EXCEPT !.task[a] = Pending,
                              !.fetches[a] = IssueFetch(@),
                              !.pc = IF Position(a) < 4 THEN "launch" ELSE "await"]
    /\ UNCHANGED <<entry, url, pc, task, responses, fetches, ret, req>>

\* A fetch of the second call returns and the analyzer body runs
OtherFetchReturns(a) ==
    /\ other.pc = "await"
    /\ other.task[a].state = "pending"
    /\ LET response == SitePage(other.url)
       IN  other' = [other EXCEPT
                        !.responses[a] = response,
                        !.task[a] = Promise("fulfilled", Analyze(a, other.url, response))]
    /\ UNCHANGED <<entry, url, pc, task, responses, fetches, ret, req>>

\* A fetch of the second call fails and the analyzer rethrows
OtherFetchFails(a) ==
    /\ other.pc = "await"
    /\ other.task[a].state = "pending"
    /\ \E message \in NetworkErrors :
         other' = [other EXCEPT !.task[a] = Promise("rejected", AnalyzerError(a, message))]
    /\ UNCHANGED <<entry, url, pc, task, responses, fetches, ret, req>>

\* The four elements the second call hands to its Promise.all
OtherElementsShared == Elements
OtherElements == [i \in 1..4 |-> WithCatch(other.task[Order[i]])]

\* "await Promise.all([...])" of the second call resumes
OtherJoin ==
    /\ other.pc = "await"
    /\ LET all == PromiseAll(OtherElements)
       IN  /\ all.state # "pending"
           /\ other' = [other EXCEPT
                            !.pc = "done",
                            !.ret = IF all.state = "fulfilled"
                                    THEN Returned(AuditResults(all.value[1], all.value[2],
                                                               all.value[3], all.value[4]))
                                    ELSE Threw([message |-> [prefix |-> "Audit failed: ",
                                                             cause |-> all.value.message]])]
    /\ UNCHANGED <<entry, url, pc, task, responses, fetches, ret, req>>

ConcurrentNext ==
    \/ Next
    \/ \E a \in Analyzers : OtherLaunch(a)
    \/ \E a \in Analyzers : OtherFetchReturns(a)
    \/ \E a \in Analyzers : OtherFetchFails(a)
    \/ OtherJoin

ConcurrentSpec == ConcurrentInit /\ [][ConcurrentNext]_vars

(***************************************************************************)
(* The route handlers: POST /api/audit/run, POST /api/seo/analyze and      *)
(* POST /api/performance/analyze.  Each validates req.body.url, awaits its *)
(* service function and sends one response.  The timestamp of the success  *)
(* body is left out.                                                       *)
(***************************************************************************)
Routes == {"/api/audit/run", "/api/seo/analyze", "/api/performance/analyze"}

\* The service function the handler of a route awaits
RouteService(route) ==
    CASE route = "/api/audit/run" -> "audit"
      [] route = "/api/seo/analyze" -> "seo"
      [] route = "/api/performance/analyze" -> "performance"

\* A value of req.body.url: its typeof, whether it is falsy, whether
\* new URL(url) accepts it, and the protocol of the parsed URL
UrlValue(type, falsy, parses, scheme) ==
    [type |-> type, falsy |-> falsy, parses |-> parses, scheme |-> scheme]

\* undefined, 42, "", "example.com", "ftp://example.com/",
\* "http://example.com/", "https://example.com/"
RequestUrls ==
    { UrlValue("undefined", TRUE, FALSE, ""),
      UrlValue("number", FALSE, FALSE, ""),
      UrlValue("string", TRUE, FALSE, ""),
      UrlValue("string", FALSE, FALSE, ""),
      UrlValue("string", FALSE, TRUE, "ftp"),
      UrlValue("string", FALSE, TRUE, "http"),
      UrlValue("string", FALSE, TRUE, "https") }

validateUrlAnyProtocol(u) ==
    IF u.falsy \/ u.type # "string" THEN FALSE
    ELSE u.parses

validateUrl(u) ==
    IF u.falsy \/ u.type # "string" THEN FALSE
    ELSE IF ~u.parses THEN FALSE
    ELSE u.scheme = "http" \/ u.scheme = "https"

\* res.status(400).json({ error: 'Invalid URL', message: ... })
InvalidUrlResponse ==
    [status |-> 400,
     body |-> [error |-> "Invalid URL", message |-> "Please provide a valid website URL"]]

\* res.json({ success: true, url, timestamp, <key>: results })
SuccessResponse(route, u, results) ==
    [status |-> 200,
     body |-> CASE route = "/api/audit/run" ->
                       [success |-> TRUE, url |-> u, results |-> results]
                [] route = "/api/seo/analyze" ->
                       [success |-> TRUE, url |-> u, seo |-> results]
                [] route = "/api/performance/analyze" ->
                       [success |-> TRUE, url |-> u, performance |-> results]]

RouteFailure(route) ==
    CASE route = "/api/audit/run" -> "Audit failed"
      [] route = "/api/seo/analyze" -> "SEO analysis failed"
      [] route = "/api/performance/analyze" -> "Performance analysis failed"

\* catch (error) { res.status(500).json({ error: ..., message: error.message }) }
ErrorResponse(route, error) ==
    [status |-> 500, body |-> [error |-> RouteFailure(route), message |-> error.message]]

\* A request has reached the handler of one of the routes
RouteInit ==
    /\ \E route \in Routes :
         /\ req = [route |-> route, res |-> NoResponse]
         /\ entry = RouteService(route)
    /\ url \in RequestUrls
    /\ pc = "request"
    /\ task = [a \in Analyzers |-> Unstarted]
    /\ responses = [a \in Analyzers |-> NoValue]
    /\ fetches = [a \in Analyzers |-> 0]
    /\ ret = NoReturn
    /\ other = IdleCall

\* const { url } = req.body; if (!validateUrl(url)) return res.status(400)...;
\* otherwise the handler goes on to call its service function
Validate ==
    /\ pc = "request"
    /\ IF validateUrl(url)
       THEN pc' = "launch" /\ UNCHANGED req
       ELSE pc' = "closed" /\ req' = [req EXCEPT !.res = InvalidUrlResponse]
    /\ UNCHANGED <<entry, url, task, responses, fetches, ret, other>>

\* "await <service>(url)" resumes: the handler sends the success body, or
\* its catch block sends the error
Respond ==
    /\ req.route # "none"
    /\ pc = "done"
    /\ req' = [req EXCEPT !.res = IF ret.kind = "returned"
                                  THEN SuccessResponse(req.route, url, ret.value)
                                  ELSE ErrorResponse(req.route, ret.value)]
    /\ pc' = "closed"
    /\ UNCHANGED <<entry, url, task, responses, fetches, ret, other>>

RouteNext ==
    \/ Validate
    \/ Next
    \/ Respond

RouteSpec == RouteInit /\ [][RouteNext]_vars

(***************************************************************************)
(* Properties.                                                             *)
(***************************************************************************)
AuditDone == entry = "audit" /\ pc = "done"

Failed(a) == task[a].state = "rejected"

Succeeded(a) == task[a].state = "fulfilled"

\* The dimension of analyzer a in an audit report
Dimension(report, a) ==
    CASE a = "seo" -> report.seo
      [] a = "performance" -> report.performance
      [] a = "accessibility" -> report.accessibility
      [] a = "bestPractices" -> report.bestPractices

\* The grading thresholds as the specification states them
GradeOf(score) ==
    CASE score >= 90 -> "A"
      [] score >= 80 /\ score < 90 -> "B"
      [] score >= 70 /\ score < 80 -> "C"
      [] score >= 60 /\ score < 70 -> "D"
      [] score < 60 -> "F"

\* C1: every finished audit has returned a report in which each failed
\* dimension is exactly the placeholder {error: message, score: 0} and each
\* other dimension is the unchanged result of its own analyzer on the page
\* that analyzer fetched.
C1_FailureIsolation ==
    AuditDone =>
        /\ ret.kind = "returned"
        /\ \A a \in Analyzers :
            LET dim == Dimension(ret.value, a)
            IN  IF Failed(a)
                THEN /\ DOMAIN dim = {"error", "score"}
                     /\ dim.error = task[a].value.message
                     /\ dim.score = 0
                ELSE /\ Succeeded(a)
                     /\ "error" \notin DOMAIN dim
                     /\ dim = task[a].value
                     /\ dim = Analyze(a, url, responses[a])

\* Performance timed out, the other three analyzers succeeded
C1_Witness ==
    /\ AuditDone
    /\ Failed("performance")
    /\ task["performance"].value.message.cause = TimeoutError("performance")
    /\ \A a \in Analyzers \ {"performance"} : Succeeded(a)

\* C2: in an audit all four analyzers are launched before the call is
\* suspended at its await and before any of them settles; the audit finishes
\* only with a report and only once all four have settled; while one analyzer
\* has failed, an analyzer still pending stays able to return its results.
C2_JoinWaitsForAll ==
    entry = "audit" =>
        /\ (pc # "launch" \/ \E a \in Analyzers : Settled(task[a]))
              => \A a \in Analyzers : task[a].state # "unstarted"
        /\ pc = "done"
              => ret.kind = "returned" /\ \A a \in Analyzers : Settled(task[a])
        /\ pc # "done" => ret = NoReturn
        /\ \A a \in Analyzers :
              (task[a].state = "pending" /\ \E b \in Analyzers : Failed(b))
                  => pc = "await" /\ ENABLED FetchReturns(a)

\* SEO has failed while the other three fetches are still in flight
C2_Witness ==
    /\ entry = "audit"
    /\ pc = "await"
    /\ Failed("seo")
    /\ \A a \in Analyzers \ {"seo"} : task[a].state = "pending"

\* C3: every result an analyzer returns has an integer score in 0..100 and
\* the grade the thresholds give for that reported score.
C3_ScoreRangeAndGrade ==
    \A a \in Analyzers :
        Succeeded(a) =>
            /\ task[a].value.score \in 0..100
            /\ task[a].value.grade = GradeOf(task[a].value.score)

\* The deductions of a returned result as its issues state them
\* (the rule tables of the four analyzers)
IssueDeduction(a, issue) ==
    LET m == issue.message
        n == IF issue.args = <<>> THEN 0 ELSE issue.args[1]
    IN  CASE a = "seo" ->
                (CASE m = "Missing title tag" -> 15
                   [] m = "Title length should be 30-60 characters" -> 10
                   [] m = "Missing meta description" -> 15
                   [] m = "Meta description should be 120-160 characters" -> 8
                   [] m = "Missing H1 tag" -> 12
                   [] m = "Multiple H1 tags found" -> 8
                   [] m = "images missing alt text" -> IF 2 * n < 15 THEN 2 * n ELSE 15
                   [] m = "Missing canonical URL" -> 5
                   [] m = "Missing Open Graph tags for social sharing" -> 3)
          [] a = "performance" ->
                (CASE m = "Slow page load time" -> 20
                   [] m = "Moderate page load time" -> 10
                   [] m = "Large page size" -> 15
                   [] m = "No compression detected" -> 10
                   [] m = "No caching headers found" -> 8
                   [] m = "Consider using a CDN for better performance" -> 5)
          [] a = "accessibility" ->
                (CASE m = "images missing alt text" -> IF 3 * n < 20 THEN 3 * n ELSE 20
                   [] m = "Missing H1 heading" -> 15
                   [] m = "Improper heading hierarchy" -> 10
                   [] m = "form inputs missing labels" -> 5 * n
                   [] m = "Elements with inline colors detected - check contrast ratios" -> 5
                   [] m = "Consider adding proper tab navigation order" -> 3
                   [] m = "No ARIA landmarks or semantic HTML5 elements found" -> 8
                   [] m = "Missing language attribute on HTML element" -> 7
                   [] m = "No skip navigation links found" -> 3)
          [] a = "bestPractices" ->
                (CASE m = "Website not using HTTPS" -> 20
                   [] m \in {SecurityHeaderMessage(SecurityHeaderNames[i]) : i \in 1..4} -> 5
                   [] m = "Missing viewport meta tag" -> 15
                   [] m = "Viewport meta tag should include width=device-width" -> 8
                   [] m = "No favicon found" -> 3
                   [] m = "external links missing rel=noopener noreferrer" ->
                          IF 2 * n < 10 THEN 2 * n ELSE 10
                   [] m = "HTTP resources on HTTPS page (mixed content)" -> 15
                   [] m = "deprecated HTML elements found" -> 2 * n
                   [] m = "Many inline styles found - consider using external CSS" -> 3
                   [] m = "Multiple inline scripts found - consider using external JS" -> 3)

RECURSIVE SumDeductions(_, _)
SumDeductions(a, issues) ==
    IF issues = <<>> THEN 0
    ELSE IssueDeduction(a, Head(issues)) + SumDeductions(a, Tail(issues))

\* A result whose deductions sum to more than 100 while the reported score is 0
C3_Witness ==
    /\ entry = "bestPractices"
    /\ Succeeded("bestPractices")
    /\ SumDeductions("bestPractices", task["bestPractices"].value.issues) > 100
    /\ task["bestPractices"].value.score = 0
    /\ task["bestPractices"].value.grade = "F"

\* The scores of the four dimensions of an audit, 0 for a failed dimension
DimensionScore(a) == IF Failed(a) THEN 0 ELSE task[a].value.score

ScoreSum ==
    DimensionScore("seo") + DimensionScore("performance")
        + DimensionScore("accessibility") + DimensionScore("bestPractices")

\* C4: in every report overall.score is the integer nearest to the mean of
\* the four dimension scores (a half rounds up), 0 standing for a failed
\* dimension; it lies in 0..100 and overall.grade is its grade.
C4_OverallScore ==
    (AuditDone /\ ret.kind = "returned") =>
        LET overall == ret.value.overall
        IN  /\ overall.score \in 0..100
            /\ 4 * overall.score - ScoreSum \in {-1, 0, 1, 2}
            /\ overall.grade = GradeOf(overall.score)

\* A report whose mean lies exactly between two integers, with a failed dimension
C4_Witness ==
    /\ AuditDone
    /\ ret.kind = "returned"
    /\ ScoreSum % 4 = 2
    /\ \E a \in Analyzers : Failed(a)
    /\ \E a \in Analyzers : Succeeded(a)

\* The issues of the dimensions that succeeded
DimensionIssues(a) == IF Failed(a) THEN 0 ELSE Len(task[a].value.issues)

\* C5: in every report summary.totalIssues is the number of issues of the
\* dimensions that succeeded, summary.criticalIssues is 0 and
\* summary.recommendations is empty.
C5_TotalIssues ==
    (AuditDone /\ ret.kind = "returned") =>
        /\ ret.value.summary.totalIssues =
              DimensionIssues("seo") + DimensionIssues("performance")
                  + DimensionIssues("accessibility") + DimensionIssues("bestPractices")
        /\ ret.value.summary.criticalIssues = 0
        /\ ret.value.summary.recommendations = <<>>

\* Accessibility failed and the three other dimensions reported issues
C5_Witness ==
    /\ AuditDone
    /\ Failed("accessibility")
    /\ \A a \in Analyzers \ {"accessibility"} :
          Succeeded(a) /\ Len(task[a].value.issues) > 0

\* C6: an audit in which all four analyzers failed has returned a report of
\* four placeholders with overall score 0, grade F and no issues.
C6_AllFailed ==
    (AuditDone /\ \A a \in Analyzers : Failed(a)) =>
        /\ ret.kind = "returned"
        /\ \A a \in Analyzers :
              Dimension(ret.value, a) = [error |-> task[a].value.message, score |-> 0]
        /\ ret.value.overall.score = 0
        /\ ret.value.overall.grade = "F"
        /\ ret.value.summary.totalIssues = 0

\* Every fetch of the audit exceeded its timeout
C6_Witness ==
    /\ AuditDone
    /\ \A a \in Analyzers :
          Failed(a) /\ task[a].value.message.cause = TimeoutError(a)

\* C7: every audit eventually returns its report, whatever the outcomes of
\* the four fetches and their order (a fetch the remote never answers ends by
\* its timeout, as a failure of that analyzer alone).
C7_AuditTerminates ==
    (entry = "audit") ~> (pc = "done" /\ ret.kind = "returned")

\* A finished audit with one timeout, one network failure and two results
C7_Witness ==
    /\ AuditDone
    /\ ret.kind = "returned"
    /\ Failed("accessibility")
    /\ task["accessibility"].value.message.cause = TimeoutError("accessibility")
    /\ Failed("seo")
    /\ task["seo"].value.message.cause \in NetworkErrors
    /\ Succeeded("performance")
    /\ Succeeded("bestPractices")

TotalFetches ==
    fetches["seo"] + fetches["performance"]
        + fetches["accessibility"] + fetches["bestPractices"]

\* C8: an analyzer that has been called has issued exactly one fetch, also
\* once it has failed, and a finished audit has issued exactly four.
C8_OneFetchEach ==
    /\ \A a \in Analyzers :
          fetches[a] = IF task[a].state = "unstarted" THEN 0 ELSE 1
    /\ AuditDone => TotalFetches = 4

\* A finished audit in which two analyzers failed
C8_Witness ==
    /\ AuditDone
    /\ Failed("seo")
    /\ Failed("bestPractices")
    /\ Succeeded("performance")
    /\ Succeeded("accessibility")
    /\ TotalFetches = 4

\* C9: the score of every returned result is 100 minus the deductions of its
\* issues, and 0 when that difference is negative.
C9_ClampedDeductions ==
    \A a \in Analyzers :
        Succeeded(a) =>
            LET total == 100 - SumDeductions(a, task[a].value.issues)
            IN  task[a].value.score = IF total < 0 THEN 0 ELSE total

\* An audit whose accessibility and best-practices deductions both exceed 100,
\* through the unlabeled inputs and the deprecated elements
C9_Witness ==
    /\ entry = "audit"
    /\ Succeeded("accessibility")
    /\ Succeeded("bestPractices")
    /\ task["accessibility"].value.details.inputsWithoutLabels = MaxInputs
    /\ task["bestPractices"].value.details.deprecatedElements = MaxDeprecated
    /\ SumDeductions("accessibility", task["accessibility"].value.issues) > 100
    /\ SumDeductions("bestPractices", task["bestPractices"].value.issues) > 100
    /\ task["accessibility"].value.score = 0
    /\ task["bestPractices"].value.score = 0

\* Every form input of the document is labeled (or hidden)
AllInputsLabeled(d) ==
    \A i \in 1..Len(d.inputs) :
        LET a == d.inputs[i].attrs
        IN  a.hidden \/ a.ariaLabel \/ a.ariaLabelledby \/ (a.id /\ a.labelFor)

\* <html lang="en">, exactly one <h1>, every image with alt, every input
\* labeled, at least one landmark and one skip link
ScenarioDocument(d) ==
    /\ d.htmlLang = "en"
    /\ CountLevel(d.headings, 1) = 1
    /\ d.imagesWithoutAlt = 0
    /\ AllInputsLabeled(d)
    /\ d.landmarks >= 1
    /\ d.skipLinks = 1

\* The headings of the document whose level exceeds the previous heading's
\* level by more than 1
LevelSkips(headings) ==
    Cardinality({i \in 2..Len(headings) : headings[i] > headings[i - 1] + 1})

\* C10 as stated: analyzeAccessibility returns score 100 and grade A on every
\* document of the scenario.
C10_Original ==
    (Succeeded("accessibility") /\ ScenarioDocument(responses["accessibility"].data)) =>
        /\ task["accessibility"].value.score = 100
        /\ task["accessibility"].value.grade = "A"

\* C10 amended: analyzeAccessibility returns score 100 and grade A on every
\* document of the scenario that also has an element with tabindex, no inline
\* style containing "color" and at most one heading level skip.
C10_PerfectDocument ==
    LET d == responses["accessibility"].data
    IN  (/\ Succeeded("accessibility")
         /\ ScenarioDocument(d)
         /\ d.tabindex > 0
         /\ d.styledColor = 0
         /\ LevelSkips(d.headings) <= 1) =>
            /\ task["accessibility"].value.score = 100
            /\ task["accessibility"].value.grade = "A"
            /\ task["accessibility"].value.issues = <<>>

\* A document of the amended scenario with one level skip, images and inputs
C10_Witness ==
    LET d == responses["accessibility"].data
    IN  /\ Succeeded("accessibility")
        /\ ScenarioDocument(d)
        /\ d.tabindex > 0
        /\ d.styledColor = 0
        /\ d.headings = <<1, 3>>
        /\ d.imagesWithAlt > 0
        /\ Len(d.inputs) > 0
        /\ task["accessibility"].value.score = 100

\* No <title>, no meta description, no <h1> and exactly 3 images without alt
SeoScenarioDocument(d) ==
    /\ d.titleLength = 0
    /\ d.metaDescriptionLength = 0
    /\ CountLevel(d.headings, 1) = 0
    /\ d.imagesWithoutAlt = 3

\* C11 as stated: analyzeSEO returns score 52 and grade F on every document
\* with no title, no meta description, no h1 and exactly 3 images without alt.
C11_Original ==
    (Succeeded("seo") /\ SeoScenarioDocument(responses["seo"].data)) =>
        /\ task["seo"].value.score = 52
        /\ task["seo"].value.grade = "F"

\* C11 amended: analyzeSEO returns score 52 (100-15-15-12-6) and grade F on
\* every document of the scenario that also has a canonical link and both the
\* og:title and og:description tags; the four issues are the missing title,
\* meta description and h1 and the images without alt.
C11_PoorSeoDocument ==
    LET d == responses["seo"].data
    IN  (/\ Succeeded("seo")
         /\ SeoScenarioDocument(d)
         /\ d.canonical
         /\ d.ogTitle /\ d.ogDescription) =>
            /\ task["seo"].value.score = 100 - 15 - 15 - 12 - 6
            /\ task["seo"].value.grade = "F"
            /\ Len(task["seo"].value.issues) = 4

\* analyzeSEO called on its own returned for a document of the amended scenario
C11_Witness ==
    LET d == responses["seo"].data
    IN  /\ entry = "seo"
        /\ ret.kind = "returned"
        /\ SeoScenarioDocument(d)
        /\ d.canonical
        /\ d.ogTitle /\ d.ogDescription
        /\ ret.value.score = 52

\* The issues of a result that carry the given message
CountMessage(issues, message) ==
    Cardinality({i \in 1..Len(issues) : issues[i].message = message})

IsHierarchyIssue(issue) == issue.message = "Improper heading hierarchy"

IsNotHierarchyIssue(issue) == ~IsHierarchyIssue(issue)

\* 1 if the document has no h1, plus the headings whose level exceeds the
\* previous heading's level by more than 1
HeadingIssueCounter(headings) ==
    (IF CountLevel(headings, 1) = 0 THEN 1 ELSE 0) + LevelSkips(headings)

\* C13: in analyzeAccessibility the 'Improper heading hierarchy' warning is
\* emitted at most once, and exactly when the heading-issue counter (1 for a
\* missing h1 plus the level skips, the first heading never being one) exceeds
\* 1; it takes 10 from the score exactly when emitted, and the hierarchy
\* recommendation is given exactly when the counter is above 0.
C13_HeadingHierarchy ==
    Succeeded("accessibility") =>
        LET d == responses["accessibility"].data
            result == task["accessibility"].value
            counter == HeadingIssueCounter(d.headings)
            emitted == CountMessage(result.issues, "Improper heading hierarchy")
            others == SelectSeq(result.issues, IsNotHierarchyIssue)
        IN  /\ emitted = (IF counter > 1 THEN 1 ELSE 0)
            /\ result.score =
                   MathMax(0, 100 - SumDeductions("accessibility", others) - 10 * emitted)
            /\ (\E i \in 1..Len(result.recommendations) :
                    result.recommendations[i] = "Fix heading hierarchy (H1 -> H2 -> H3, etc.)")
                 <=> counter > 0

\* analyzeAccessibility returned for a document that opens with an h3, has an
\* h1 and exactly one level skip: no hierarchy issue
C13_Witness ==
    /\ entry = "accessibility"
    /\ ret.kind = "returned"
    /\ responses["accessibility"].data.headings = <<3, 1, 3>>
    /\ CountMessage(ret.value.issues, "Improper heading hierarchy") = 0
    /\ CountMessage(ret.value.issues, "Missing H1 heading") = 0

\* The external links that do not carry both rel tokens
RECURSIVE LinksNotCarryingBoth(_)
LinksNotCarryingBoth(groups) ==
    IF groups = <<>> THEN 0
    ELSE (IF {"noopener", "noreferrer"} \subseteq Head(groups).attrs.rel
          THEN 0 ELSE Head(groups).count)
         + LinksNotCarryingBoth(Tail(groups))

IsLinkIssue(issue) == issue.message = "external links missing rel=noopener noreferrer"

IsNotLinkIssue(issue) == ~IsLinkIssue(issue)

\* C14: analyzeBestPractices counts an external link as unsafe exactly when
\* its rel lacks noopener or lacks noreferrer; with n > 0 unsafe links it
\* emits exactly one warning naming n and takes min(n*2, 10), and with n = 0
\* it emits no issue and takes nothing.
C14_UnsafeExternalLinks ==
    Succeeded("bestPractices") =>
        LET d == responses["bestPractices"].data
            result == task["bestPractices"].value
            n == LinksNotCarryingBoth(d.externalLinks)
            warnings == SelectSeq(result.issues, IsLinkIssue)
            others == SelectSeq(result.issues, IsNotLinkIssue)
            deduction == IF n > 0 THEN (IF n * 2 < 10 THEN n * 2 ELSE 10) ELSE 0
        IN  /\ result.details.unsafeExternalLinks = n
            /\ Len(warnings) = (IF n > 0 THEN 1 ELSE 0)
            /\ \A i \in 1..Len(warnings) :
                   warnings[i].type = "warning" /\ warnings[i].args = <<n>>
            /\ result.score =
                   MathMax(0, 100 - SumDeductions("bestPractices", others) - deduction)

\* analyzeBestPractices returned for a document whose only unsafe external
\* link carries noopener alone, next to a link carrying both tokens
C14_Witness ==
    /\ entry = "bestPractices"
    /\ ret.kind = "returned"
    /\ responses["bestPractices"].data.externalLinks =
           <<Group(Link({"noopener"}), 1), Group(Link({"noopener", "noreferrer"}), 1)>>
    /\ ret.value.details.unsafeExternalLinks = 1
    /\ Len(SelectSeq(ret.value.issues, IsLinkIssue)) = 1
    /\ ret.value.score > 0

\* validateUrl rejects the URL: absent, not a string, unparsable, or of a
\* protocol other than http and https
Rejected(u) ==
    \/ u.type = "undefined"
    \/ u.type # "string"
    \/ ~u.parses
    \/ u.scheme \notin {"http", "https"}

AnalysisStarted == \E a \in Analyzers : task[a].state # "unstarted" \/ fetches[a] > 0

\* C15: on the three POST routes a request whose URL validateUrl rejects gets
\* no response other than 400 'Invalid URL', starts no analyzer and issues no
\* fetch; an analyzer starts only after validation has passed.
C15_ValidatedFirst ==
    req.route \in Routes =>
        /\ Rejected(url) =>
              /\ ~AnalysisStarted
              /\ ret = NoReturn
              /\ \/ req.res = NoResponse /\ pc = "request"
                 \/ /\ req.res.status = 400
                    /\ req.res.body.error = "Invalid URL"
                    /\ pc = "closed"
        /\ AnalysisStarted => (~Rejected(url) /\ pc # "request")
        /\ (pc = "request") => (~AnalysisStarted /\ req.res = NoResponse)

\* POST /api/seo/analyze with an ftp URL was answered 400 with nothing started
C15_Witness ==
    /\ req.route = "/api/seo/analyze"
    /\ url.parses /\ url.scheme = "ftp"
    /\ req.res.status = 400
    /\ ~AnalysisStarted

\* The key of the success body that carries the results of a route
RouteResults(route, body) ==
    CASE route = "/api/audit/run" -> body.results
      [] route = "/api/seo/analyze" -> body.seo
      [] route = "/api/performance/analyze" -> body.performance

\* C16: on POST /api/seo/analyze and POST /api/performance/analyze a failure
\* of the analyzer ends the request with a 500 response carrying the failure
\* message and a success response carries the analyzer's results, never a
\* placeholder; on POST /api/audit/run the same failure ends the request
\* with a success response whose dimension is {error, score: 0}.
C16_SingleEndpointFailure ==
    (req.route \in Routes /\ req.res.status \notin {0, 400}) =>
        IF req.route = "/api/audit/run"
        THEN /\ req.res.status = 200
             /\ req.res.body.success
             /\ \A a \in Analyzers :
                    Failed(a) =>
                        Dimension(req.res.body.results, a) =
                            [error |-> task[a].value.message, score |-> 0]
        ELSE /\ Failed(entry) =>
                    /\ req.res.status = 500
                    /\ req.res.body.error = RouteFailure(req.route)
                    /\ req.res.body.message = task[entry].value.message
                    /\ req.res.body.message.prefix = FailurePrefix(entry)
             /\ (req.res.status = 200) =>
                    /\ Succeeded(entry)
                    /\ req.res.body.success
                    /\ RouteResults(req.route, req.res.body) = task[entry].value
                    /\ "error" \notin DOMAIN RouteResults(req.route, req.res.body)

\* POST /api/seo/analyze was answered 500 after the fetch of analyzeSEO timed out
C16_Witness ==
    /\ req.route = "/api/seo/analyze"
    /\ Failed("seo")
    /\ task["seo"].value.message.cause = TimeoutError("seo")
    /\ req.res.status = 500
    /\ req.res.body.message = task["seo"].value.message

\* What an analyzer contributes to the report of a call run alone: its
\* results on the document it fetched, or the placeholder of its failure
AloneDimension(a, u, promise, response) ==
    IF promise.state = "rejected"
    THEN [error |-> promise.value.message, score |-> 0]
    ELSE Analyze(a, u, response)

\* The report of a call run alone on the given documents and fetch outcomes
AloneReport(u, promises, fetched) ==
    AuditResults(AloneDimension("seo", u, promises["seo"], fetched["seo"]),
                 AloneDimension("performance", u, promises["performance"],
                                fetched["performance"]),
                 AloneDimension("accessibility", u, promises["accessibility"],
                                fetched["accessibility"]),
                 AloneDimension("bestPractices", u, promises["bestPractices"],
                                fetched["bestPractices"]))

\* C12: when two runFullAudit calls for unrelated URLs run concurrently, in
\* every interleaving each call returns the report it returns when run alone
\* on the same documents and fetch outcomes, after its own four analyzers
\* have settled, and each call issues its own four fetches.
C12_NoSharedState ==
    other.pc # "idle" =>
        /\ (pc = "done") =>
              /\ \A a \in Analyzers : Settled(task[a])
              /\ ret = Returned(AloneReport(url, task, responses))
              /\ \A a \in Analyzers : fetches[a] = 1
        /\ (other.pc = "done") =>
              /\ \A a \in Analyzers : Settled(other.task[a])
              /\ other.ret = Returned(AloneReport(other.url, other.task, other.responses))
              /\ \A a \in Analyzers : other.fetches[a] = 1

\* The second call returned while the first was still waiting for a fetch,
\* each with a failed analyzer of its own
C12_Witness ==
    /\ other.pc = "done"
    /\ pc = "await"
    /\ task["seo"].state = "rejected"
    /\ task["accessibility"].state = "fulfilled"
    /\ task["bestPractices"].state = "pending"
    /\ other.task["performance"].state = "rejected"
    /\ other.task["seo"].state = "fulfilled"
    /\ other.ret.value.seo = analyzeSEO(SitePage(SecondUrl))
    /\ "error" \in DOMAIN other.ret.value.performance

=============================================================================
